---- MODULE Spec2Model ----
(***************************************************************************)
(* typed_tuple: the proc macro generate_typed_tuple_impls                  *)
(* (typed_tuple_macros/src/lib.rs), the operations of the implementations  *)
(* it emits, and the hand-enumerated macro impl_typed_tuple! (src/lib.rs). *)
(***************************************************************************)
EXTENDS Integers, Sequences, FiniteSets, TLC

\* Largest literal handed to generate_typed_tuple_impls in the generation runs.
MaxN == 8

\* Largest literal in the runs that go on to use the emitted implementations.
MaxArity == 3

\* Element values of each type are 0..MaxVal.
MaxVal == 1

\* Largest literal in the runs that perform the pass's steps in any order.
MaxOrderN == 3

\* "TypedTuple is implemented on tuples of up to 12 elements in length"
HandMaxLen == 12

VARIABLES
    max_size,      \* the parsed literal N
    pc,            \* position of the generator: "markers", "sizes", "impl", "done"
    index,         \* counter of the marker loop
    index_idents,  \* Vec of marker identifiers
    impls,         \* Vec of emitted items
    size,          \* counter of the size loop
    type_params,   \* type parameters of the current size
    zip_pos,       \* cursor of the inner loop over the zip
    self,          \* the tuple value the emitted operations act on (<<>>: none, or moved)
    call,          \* the operation in progress or last completed, with its inputs and result
    visited,       \* reordered pass: the (size, index) iterations already performed
    emitted,       \* reordered pass: the set of items emitted
    early,         \* reordered pass: an iteration was performed before the marker loop
    h_next,        \* impl_typed_tuple!: number of the next top-level invocation
    h_pending,     \* impl_typed_tuple!: the invocation awaiting expansion, as its groups
    h_impls,       \* impl_typed_tuple!: the impl items expanded so far
    h_steps,       \* impl_typed_tuple!: expansions of the recursive rule in this invocation
    h_stops        \* impl_typed_tuple!: (arity, steps) of each invocation that has ended

gen_vars == <<max_size, pc, index, index_idents, impls, size, type_params, zip_pos>>

ops_vars == <<self, call>>

order_vars == <<visited, emitted, early>>

hand_vars == <<h_next, h_pending, h_impls, h_steps, h_stops>>

vars == <<gen_vars, ops_vars, order_vars, hand_vars>>

----------------------------------------------------------------------------
\* Iterator helpers used by the generator.

Min(a, b) == IF a <= b THEN a ELSE b

\* Variant: the number is left out of the identifier.
FormatIdentFixed(prefix, n) == <<prefix, 0>>

\* quote::format_ident!("<prefix>{}", n)
FormatIdent(prefix, n) == <<prefix, n>>

\* (lo..hi) as a sequence, hi exclusive
RangeSeq(lo, hi) == [k \in 1..(IF hi > lo THEN hi - lo ELSE 0) |-> lo + k - 1]

\* Iterator::enumerate
Enumerate(s) == [k \in 1..Len(s) |-> <<k - 1, s[k]>>]

\* Iterator::zip: stops with the shorter side
Zip(a, b) == [k \in 1..Min(Len(a), Len(b)) |-> <<a[k], b[k]>>]

\* Iterator::take
Take(s, n) == SubSeq(s, 1, Min(n, Len(s)))

\* Iterator::skip
Skip(s, n) == SubSeq(s, Min(n, Len(s)) + 1, Len(s))

\* (0..size).map(|i| format_ident!("T{}", i)).collect()
TypeParams(sz) == [k \in 1..sz |-> FormatIdent("T", k - 1)]

\* pub struct TupleIndex<index>;
MarkerItem(marker_ident) == [kind |-> "struct", ident |-> marker_ident]

\* type_params.iter().enumerate().filter(|(i, _)| *i != index).map(|(_, t)| t)
PopOutputTypes(tps, idx) ==
    LET kept == SelectSeq(Enumerate(tps), LAMBDA p : p[1] # idx)
    IN  [k \in 1..Len(kept) |-> kept[k][2]]

\* Variant: the last field is dropped instead of the field at index.
RemainingIndicesDropLast(sz, idx) == RangeSeq(0, sz - 1)

\* (0..size).filter(|i| *i != index)
RemainingIndices(sz, idx) == SelectSeq(RangeSeq(0, sz), LAMBDA i : i # idx)

\* type_params.iter().take(index + 1)
SplitLeftTypes(tps, idx) == Take(tps, idx + 1)

\* type_params.iter().skip(index + 1)
SplitRightTypes(tps, idx) == Skip(tps, idx + 1)

\* Variant: (0..index), the upper end excluded.
SplitLeftIndicesExclusive(idx) == RangeSeq(0, idx)

\* (0..=index)
SplitLeftIndices(idx) == RangeSeq(0, idx + 1)

\* ((index + 1)..size)
SplitRightIndices(sz, idx) == RangeSeq(idx + 1, sz)

\* Variant: every implementation is declared for the first type parameter.
ImplItemFirstTarget(sz, tps, target_type, idx, index_marker) ==
    [kind               |-> "impl",
     type_params        |-> tps,
     index_marker       |-> index_marker,
     target_type        |-> tps[1],
     PopOutput          |-> PopOutputTypes(tps, idx),
     SplitLeft          |-> SplitLeftTypes(tps, idx),
     SplitRight         |-> SplitRightTypes(tps, idx),
     INDEX              |-> idx,
     index_lit          |-> idx,
     remaining_indices  |-> RemainingIndices(sz, idx),
     split_left_indices |-> SplitLeftIndices(idx),
     split_right_indices |-> SplitRightIndices(sz, idx)]

\* The item pushed for one (target_type, (index, index_marker)) of the zip.
ImplItem(sz, tps, target_type, idx, index_marker) ==
    [kind               |-> "impl",
     type_params        |-> tps,
     index_marker       |-> index_marker,
     target_type        |-> target_type,
     PopOutput          |-> PopOutputTypes(tps, idx),
     SplitLeft          |-> SplitLeftTypes(tps, idx),
     SplitRight         |-> SplitRightTypes(tps, idx),
     INDEX              |-> idx,
     index_lit          |-> idx,
     remaining_indices  |-> RemainingIndices(sz, idx),
     split_left_indices |-> SplitLeftIndices(idx),
     split_right_indices |-> SplitRightIndices(sz, idx)]

\* Variant: the loop runs over every marker, not only the first size of them.
ImplLoopItemsNoZip(tps, idents) ==
    [k \in 1..Len(idents) |-> <<tps[Min(k, Len(tps))], Enumerate(idents)[k]>>]

\* Variant: the markers are paired with the type parameters back to front.
ImplLoopItemsReversed(tps, idents) ==
    Zip(tps, Enumerate([k \in 1..Len(idents) |-> idents[Len(idents) + 1 - k]]))

\* type_params.iter().zip(index_idents.iter().enumerate())
ImplLoopItems(tps, idents) == Zip(tps, Enumerate(idents))

----------------------------------------------------------------------------
\* generate_typed_tuple_impls, one action per loop step.

InitGen(ns) ==
    /\ max_size \in ns
    /\ pc = "markers"
    /\ index = 0
    /\ index_idents = <<>>
    /\ impls = <<>>
    /\ size = 0
    /\ type_params = <<>>
    /\ zip_pos = 0

\* for index in 0..max_size { ... }
MarkerStep ==
    /\ pc = "markers"
    /\ index < max_size
    /\ LET marker_ident == FormatIdent("TupleIndex", index)
       IN  /\ index_idents' = Append(index_idents, marker_ident)
           /\ impls' = Append(impls, MarkerItem(marker_ident))
    /\ index' = index + 1
    /\ UNCHANGED <<max_size, pc, size, type_params, zip_pos, ops_vars, order_vars, hand_vars>>

MarkersDone ==
    /\ pc = "markers"
    /\ index >= max_size
    /\ pc' = "sizes"
    /\ size' = 1
    /\ UNCHANGED <<max_size, index, index_idents, impls, type_params, zip_pos, ops_vars, order_vars, hand_vars>>

\* for size in 1..=max_size { let type_params = ...; for ... in zip { ... } }
SizeStep ==
    /\ pc = "sizes"
    /\ size <= max_size
    /\ type_params' = TypeParams(size)
    /\ zip_pos' = 1
    /\ pc' = "impl"
    /\ UNCHANGED <<max_size, index, index_idents, impls, size, ops_vars, order_vars, hand_vars>>

SizesDone ==
    /\ pc = "sizes"
    /\ size > max_size
    /\ pc' = "done"
    /\ UNCHANGED <<max_size, index, index_idents, impls, size, type_params, zip_pos, ops_vars, order_vars, hand_vars>>

ImplStep ==
    /\ pc = "impl"
    /\ zip_pos <= Len(ImplLoopItems(type_params, index_idents))
    /\ LET item == ImplLoopItems(type_params, index_idents)[zip_pos]
           target_type == item[1]
           idx == item[2][1]
           index_marker == item[2][2]
       IN  impls' = Append(impls, ImplItem(size, type_params, target_type, idx, index_marker))
    /\ zip_pos' = zip_pos + 1
    /\ UNCHANGED <<max_size, pc, index, index_idents, size, type_params, ops_vars, order_vars, hand_vars>>

ImplsDone ==
    /\ pc = "impl"
    /\ zip_pos > Len(ImplLoopItems(type_params, index_idents))
    /\ size' = size + 1
    /\ pc' = "sizes"
    /\ UNCHANGED <<max_size, index, index_idents, impls, type_params, zip_pos, ops_vars, order_vars, hand_vars>>

NextGen ==
    \/ MarkerStep
    \/ MarkersDone
    \/ SizeStep
    \/ SizesDone
    \/ ImplStep
    \/ ImplsDone

----------------------------------------------------------------------------
\* Tuple values: element types with their values and Default::default().

Types == {"usize", "char"}

Values(t) == {[ty |-> t, val |-> n] : n \in 0..MaxVal}

AllValues == UNION {Values(t) : t \in Types}

\* <T as Default>::default()
Default(t) == [ty |-> t, val |-> 0]

\* The closures handed to map; "diverge" never returns a value.
Funcs == {"id", "succ", "zero", "diverge"}

Returns(f) == f # "diverge"

ApplyFn(f, x) ==
    CASE f = "id"   -> x
      [] f = "succ" -> [x EXCEPT !.val = (x.val + 1) % (MaxVal + 1)]
      [] f = "zero" -> [x EXCEPT !.val = 0]

TuplesOf(n) == [1..n -> AllValues]

\* The concrete tuple type of a value.
TypeOf(t) == [k \in 1..Len(t) |-> t[k].ty]

\* self.<i>
Field(t, i) == t[i + 1]

\* self.<i> = x
SetField(t, i, x) == [t EXCEPT ![i + 1] = x]

\* (self.<i0>, self.<i1>, ...)
Fields(t, indices) == [k \in 1..Len(indices) |-> Field(t, indices[k])]

\* The type a type parameter of an impl stands for, once the impl's
\* (T0, .., Tn) is unified with the concrete tuple type ts.
Bind(im, ts, tparam) == ts[CHOOSE k \in 1..Len(im.type_params) : im.type_params[k] = tparam]

BindAll(im, ts, tparams) == [k \in 1..Len(tparams) |-> Bind(im, ts, tparams[k])]

ImplItems(items) == {items[k] : k \in {j \in 1..Len(items) : items[j].kind = "impl"}}

MarkerIdents(items) == {items[k].ident : k \in {j \in 1..Len(items) : items[j].kind = "struct"}}

\* impl<T0, ..> TypedTuple<index_marker, target_type> for (T0, ..,): whether the
\* impl applies to a tuple of type ts asked for element type t, the marker
\* either inferred (m = <<>>) or named (m = <<marker>>).
Matches(im, ts, t, m) ==
    /\ Len(im.type_params) = Len(ts)
    /\ Bind(im, ts, im.target_type) = t
    /\ m = <<>> \/ m = <<im.index_marker>>

Candidates(items, ts, t, m) == {im \in ImplItems(items) : Matches(im, ts, t, m)}

\* The implementations a call on the tuple t can name.
ImplsFor(items, t) == {im \in ImplItems(items) : Len(im.type_params) = Len(t)}

\* fn get(&self) -> &T { &self.<index_lit> }
GetBody(im, t) == Field(t, im.index_lit)

\* Variant: get_mut hands out the first field.
GetMutAssignFirst(im, t, x) == SetField(t, 0, x)

\* *t.get_mut() = x, with fn get_mut(&mut self) -> &mut T { &mut self.<index_lit> }
GetMutAssign(im, t, x) == SetField(t, im.index_lit, x)

\* Variant: the value is read and left in place.
MapTakenInPlace(im, t) == t

\* core::mem::take(&mut self.<index_lit>): the tuple it leaves behind
MapTaken(im, t) == SetField(t, im.index_lit, Default(Field(t, im.index_lit).ty))

\* Variant: the value f returned is not written back.
MapAssignedDropped(im, t, r) == t

\* self.<index_lit> = <the value f returned>
MapAssigned(im, t, r) == SetField(t, im.index_lit, r)

\* fn pop(self) { (self.<index_lit>, (self.<remaining_indices>,*)) }
PopBody(im, t) == <<Field(t, im.index_lit), Fields(t, im.remaining_indices)>>

\* fn split_at(self) { ((self.<split_left_indices>,*), (self.<split_right_indices>,*)) }
SplitAtBody(im, t) == <<Fields(t, im.split_left_indices), Fields(t, im.split_right_indices)>>

NoCall ==
    [name |-> "none", impl |-> <<>>, before |-> <<>>, arg |-> <<>>, f |-> "",
     phase |-> "idle", taken |-> <<>>, f_args |-> <<>>, after_write |-> <<>>,
     ret |-> <<>>]

InitOps ==
    /\ self = <<>>
    /\ call = NoCall

Idle == pc = "done" /\ call.phase \in {"idle", "unwound"}

\* A caller builds a tuple of an arity that has implementations.
NewTuple ==
    /\ Idle
    /\ self = <<>>
    /\ call = NoCall
    /\ \E n \in 1..max_size : self' \in TuplesOf(n)
    /\ call' = NoCall
    /\ UNCHANGED <<gen_vars, order_vars, hand_vars>>

Get ==
    /\ Idle /\ self # <<>>
    /\ \E im \in ImplsFor(impls, self) :
         call' = [NoCall EXCEPT !.name = "get", !.impl = <<im>>, !.before = self,
                                !.after_write = IF call.name = "get_mut"
                                                THEN <<call.impl[1].INDEX, call.arg[1]>>
                                                ELSE <<>>,
                                !.ret = <<GetBody(im, self)>>]
    /\ UNCHANGED <<gen_vars, self, order_vars, hand_vars>>

GetMut ==
    /\ Idle /\ self # <<>>
    /\ \E im \in ImplsFor(impls, self) :
         \E x \in Values(Bind(im, TypeOf(self), im.target_type)) :
           /\ self' = GetMutAssign(im, self, x)
           /\ call' = [NoCall EXCEPT !.name = "get_mut", !.impl = <<im>>,
                                     !.before = self, !.arg = <<x>>]
    /\ UNCHANGED <<gen_vars, order_vars, hand_vars>>

\* map, step 1: the argument of f is evaluated, core::mem::take(&mut self.<i>)
MapTake ==
    /\ Idle /\ self # <<>>
    /\ \E im \in ImplsFor(impls, self), f \in Funcs :
         /\ self' = MapTaken(im, self)
         /\ call' = [NoCall EXCEPT !.name = "map", !.impl = <<im>>, !.before = self,
                                   !.f = f, !.phase = "taken",
                                   !.taken = <<GetBody(im, self)>>]
    /\ UNCHANGED <<gen_vars, order_vars, hand_vars>>

\* map, step 2: f is called with the value taken and returns
MapCall ==
    /\ pc = "done" /\ call.phase = "taken" /\ Returns(call.f)
    /\ call' = [call EXCEPT !.phase = "applied",
                            !.f_args = Append(@, call.taken[1]),
                            !.ret = <<ApplyFn(call.f, call.taken[1])>>]
    /\ UNCHANGED <<gen_vars, self, order_vars, hand_vars>>

\* map, step 2 when f never returns: the assignment is never reached
MapDiverge ==
    /\ pc = "done" /\ call.phase = "taken" /\ ~Returns(call.f)
    /\ call' = [call EXCEPT !.phase = "unwound", !.f_args = Append(@, call.taken[1])]
    /\ UNCHANGED <<gen_vars, self, order_vars, hand_vars>>

\* map, step 3: self.<i> = <the value f returned>
MapAssign ==
    /\ pc = "done" /\ call.phase = "applied"
    /\ self' = MapAssigned(call.impl[1], self, call.ret[1])
    /\ call' = [call EXCEPT !.phase = "idle"]
    /\ UNCHANGED <<gen_vars, order_vars, hand_vars>>

Pop ==
    /\ Idle /\ self # <<>>
    /\ \E im \in ImplsFor(impls, self) :
         call' = [NoCall EXCEPT !.name = "pop", !.impl = <<im>>, !.before = self,
                                !.ret = PopBody(im, self)]
    /\ self' = <<>>
    /\ UNCHANGED <<gen_vars, order_vars, hand_vars>>

SplitAt ==
    /\ Idle /\ self # <<>>
    /\ \E im \in ImplsFor(impls, self) :
         call' = [NoCall EXCEPT !.name = "split_at", !.impl = <<im>>, !.before = self,
                                !.ret = SplitAtBody(im, self)]
    /\ self' = <<>>
    /\ UNCHANGED <<gen_vars, order_vars, hand_vars>>

\* A call site asks for the implementation for element type t, with or
\* without a marker.  Resolution is static: it sees the tuple's type, which no
\* operation changes, so it is taken on the tuple as built.
Lookup ==
    /\ Idle /\ self # <<>>
    /\ call.name \in {"none", "lookup"}
    /\ \E t \in Types, m \in {<<>>} \cup {<<mk>> : mk \in MarkerIdents(impls)} :
         call' = [NoCall EXCEPT !.name = "lookup", !.before = self, !.arg = <<t, m>>,
                                !.ret = <<Candidates(impls, TypeOf(self), t, m)>>]
    /\ UNCHANGED <<gen_vars, self, order_vars, hand_vars>>

NextOps ==
    \/ NewTuple
    \/ Get
    \/ GetMut
    \/ MapTake
    \/ MapCall
    \/ MapDiverge
    \/ MapAssign
    \/ Pop
    \/ SplitAt
    \/ Lookup

----------------------------------------------------------------------------------------------------------------------------------------------
\* The steps of generate_typed_tuple_impls performed in an arbitrary order:
\* the marker loop as one step, and one step for each iteration (size, index)
\* of the nested loops, each with the body the source gives it.

InitOrderOff ==
    /\ visited = {}
    /\ emitted = {}
    /\ early = FALSE

\* Lines 20-29, the whole loop.
ReorderMarkers ==
    /\ pc = "reorder_pre"
    /\ index_idents' = [k \in 1..max_size |-> FormatIdent("TupleIndex", k - 1)]
    /\ emitted' = emitted \cup {MarkerItem(FormatIdent("TupleIndex", k - 1)) : k \in 1..max_size}
    /\ index' = max_size
    /\ pc' = "reorder_post"
    /\ UNCHANGED <<max_size, impls, size, type_params, zip_pos, visited, early,
                   ops_vars, hand_vars>>

\* Lines 33-83 for one size and one index: the item of the zip at that index,
\* if the zip has one.
ReorderImpl(sz, idx) ==
    /\ pc \in {"reorder_pre", "reorder_post"}
    /\ <<sz, idx>> \notin visited
    /\ LET tps == TypeParams(sz)
           items == ImplLoopItems(tps, index_idents)
       IN  emitted' = IF idx + 1 <= Len(items)
                      THEN emitted \cup {ImplItem(sz, tps, items[idx + 1][1],
                                                  items[idx + 1][2][1], items[idx + 1][2][2])}
                      ELSE emitted
    /\ visited' = visited \cup {<<sz, idx>>}
    /\ early' = (early \/ pc = "reorder_pre")
    /\ UNCHANGED <<gen_vars, ops_vars, hand_vars>>

ReorderImplAny == \E sz \in 1..max_size : \E idx \in 0..(sz - 1) : ReorderImpl(sz, idx)

NextReorder ==
    \/ ReorderMarkers
    \/ ReorderImplAny

----------------------------------------------------------------------------
\* impl_typed_tuple! and its invocations (src/lib.rs).

\* impl_typed_tuple!((A, B)); ... impl_typed_tuple!((A, B, C, D, E, F, G, H, I, K, J, L));
HandInvocations ==
    << <<"A", "B">>,
       <<"A", "B", "C">>,
       <<"A", "B", "C", "D">>,
       <<"A", "B", "C", "D", "E">>,
       <<"A", "B", "C", "D", "E", "F">>,
       <<"A", "B", "C", "D", "E", "F", "G">>,
       <<"A", "B", "C", "D", "E", "F", "G", "H">>,
       <<"A", "B", "C", "D", "E", "F", "G", "H", "I">>,
       <<"A", "B", "C", "D", "E", "F", "G", "H", "I", "K">>,
       <<"A", "B", "C", "D", "E", "F", "G", "H", "I", "K", "J">>,
       <<"A", "B", "C", "D", "E", "F", "G", "H", "I", "K", "J", "L">> >>

\* [0, 1, 2, 3, 4, 5, 6, 7, 8, 9, 10, 11]
HandIndexList == <<0, 1, 2, 3, 4, 5, 6, 7, 8, 9, 10, 11>>

\* impl<generics> TypedTuple<idx_head, gen_head> for (generics) { get, get_mut, map }
HandImplItem(generics, idx_head, gen_head) ==
    [generics |-> generics,
     INDEX    |-> idx_head,
     target   |-> gen_head,
     field    |-> idx_head,
     methods  |-> {"get", "get_mut", "map"}]

InitHandOff ==
    /\ h_next = 0
    /\ h_pending = <<>>
    /\ h_impls = <<>>
    /\ h_steps = 0
    /\ h_stops = {}

InitHandOn ==
    /\ h_next = 1
    /\ h_pending = <<>>
    /\ h_impls = <<>>
    /\ h_steps = 0
    /\ h_stops = {}

\* The next impl_typed_tuple!((..)); of the file is met.
HandInvoke ==
    /\ h_next \in 1..Len(HandInvocations)
    /\ h_pending = <<>>
    /\ h_pending' = << <<HandInvocations[h_next]>> >>
    /\ h_next' = h_next + 1
    /\ h_steps' = 0
    /\ UNCHANGED <<h_impls, h_stops, gen_vars, ops_vars, order_vars>>

\* (( $($generics:tt ),* ), [ $( $( $idx_tail:tt ),+ )? ], []) => {};
HandRuleStop ==
    /\ h_pending # <<>>
    /\ Len(h_pending[1]) = 3
    /\ h_pending[1][3] = <<>>
    /\ h_pending' = <<>>
    /\ h_stops' = h_stops \cup {<<Len(h_pending[1][1]), h_steps>>}
    /\ UNCHANGED <<h_next, h_impls, h_steps, gen_vars, ops_vars, order_vars>>

\* (( generics ), [idx_head, idx_tail..], [gen_head, gen_tail..]) => { impl ..; recurse on the tails }
HandRuleImpl ==
    /\ h_pending # <<>>
    /\ Len(h_pending[1]) = 3
    /\ h_pending[1][1] # <<>>
    /\ h_pending[1][2] # <<>>
    /\ h_pending[1][3] # <<>>
    /\ LET generics == h_pending[1][1]
           idxs == h_pending[1][2]
           gens == h_pending[1][3]
       IN  /\ h_impls' = Append(h_impls, HandImplItem(generics, Head(idxs), Head(gens)))
           /\ h_pending' = << <<generics, Tail(idxs), Tail(gens)>> >>
    /\ h_steps' = h_steps + 1
    /\ UNCHANGED <<h_next, h_stops, gen_vars, ops_vars, order_vars>>

\* (( generics )) => impl_typed_tuple!(( generics ), [0, .., 11], [ generics ]);
HandRuleEntry ==
    /\ h_pending # <<>>
    /\ Len(h_pending[1]) = 1
    /\ h_pending' = << <<h_pending[1][1], HandIndexList, h_pending[1][1]>> >>
    /\ UNCHANGED <<h_next, h_impls, h_steps, h_stops, gen_vars, ops_vars, order_vars>>

NextHand ==
    \/ HandInvoke
    \/ HandRuleStop
    \/ HandRuleImpl
    \/ HandRuleEntry

----------------------------------------------------------------------------
\* Spec: the generation pass alone.  SpecOps: the pass, then calls of the
\* emitted operations.  SpecOrder: the pass as written, or its steps in any
\* order.  SpecHand: the expansion of the impl_typed_tuple! invocations.

GenOff ==
    /\ max_size = 0
    /\ pc = "off"
    /\ index = 0
    /\ index_idents = <<>>
    /\ impls = <<>>
    /\ size = 0
    /\ type_params = <<>>
    /\ zip_pos = 0

Init == InitGen(0..MaxN) /\ InitOps /\ InitOrderOff /\ InitHandOff

Next == NextGen

Spec == Init /\ [][Next]_vars

InitWithOps == InitGen(1..MaxArity) /\ InitOps /\ InitOrderOff /\ InitHandOff

NextWithOps == NextGen \/ NextOps

SpecOps == InitWithOps /\ [][NextWithOps]_vars

InitOrder ==
    /\ max_size \in 1..MaxOrderN
    /\ pc \in {"markers", "reorder_pre"}
    /\ index = 0
    /\ index_idents = <<>>
    /\ impls = <<>>
    /\ size = 0
    /\ type_params = <<>>
    /\ zip_pos = 0
    /\ InitOps /\ InitOrderOff /\ InitHandOff

NextOrder == NextGen \/ NextReorder

SpecOrder == InitOrder /\ [][NextOrder]_vars

InitHand == GenOff /\ InitOps /\ InitOrderOff /\ InitHandOn

SpecHand == InitHand /\ [][NextHand]_vars

----------
\* Properties of the generation pass (Spec).

ImplIndexes == {k \in 1..Len(impls) : impls[k].kind = "impl"}

StructIndexes == {k \in 1..Len(impls) : impls[k].kind = "struct"}

\* The emitted implementations for arity s and position i.
ImplsAt(s, i) == {k \in ImplIndexes : Len(impls[k].type_params) = s /\ impls[k].INDEX = i}

\* C1: once generate_typed_tuple_impls(N) has completed, N >= 1, there is
\* exactly one implementation for each (s, i) with 1 <= s <= N and
\* 0 <= i <= s-1, none for any other (s, i), and N*(N+1)/2 in all; at no
\* point of the pass is there an implementation outside that family or a
\* second one for the same (s, i).
C1_ExactFamily ==
    /\ \A k \in ImplIndexes :
         /\ Len(impls[k].type_params) \in 1..max_size
         /\ impls[k].INDEX \in 0..(Len(impls[k].type_params) - 1)
         /\ ImplsAt(Len(impls[k].type_params), impls[k].INDEX) = {k}
    /\ (pc = "done" /\ max_size >= 1) =>
         /\ \A s \in 0..(max_size + 1), i \in 0..(max_size + 1) :
              Cardinality(ImplsAt(s, i)) = IF s \in 1..max_size /\ i \in 0..(s - 1) THEN 1 ELSE 0
         /\ 2 * Cardinality(ImplIndexes) = max_size * (max_size + 1)

C1_Witness ==
    /\ pc = "done"
    /\ max_size = 4
    /\ Cardinality(ImplIndexes) = 10
    /\ ImplsAt(4, 3) # {}

\* C7: the completed pass has emitted exactly N marker declarations, pairwise
\* distinct, the one numbered j being TupleIndex<j> for j in 0..N-1; and every
\* implementation for position i of every arity is keyed by marker number i,
\* has element type T_i, field index i and INDEX = i, so that within one
\* arity no two implementations share a marker and marker i serves position
\* i of every arity above i.
C7_Markers ==
    /\ \A k \in ImplIndexes :
         LET im == impls[k]
             i == im.INDEX
         IN  /\ i + 1 <= Len(index_idents)
             /\ im.index_marker = index_idents[i + 1]
             /\ im.index_marker = FormatIdent("TupleIndex", i)
             /\ im.target_type = im.type_params[i + 1]
             /\ im.target_type = FormatIdent("T", i)
             /\ im.index_lit = i
             /\ \A k2 \in ImplIndexes :
                  (Len(impls[k2].type_params) = Len(im.type_params)
                     /\ impls[k2].index_marker = im.index_marker) => k2 = k
    /\ pc = "done" =>
         /\ Cardinality(StructIndexes) = max_size
         /\ Len(index_idents) = max_size
         /\ \A j \in 1..max_size :
              /\ index_idents[j] = FormatIdent("TupleIndex", j - 1)
              /\ \E k \in StructIndexes : impls[k].ident = index_idents[j]
         /\ \A j1, j2 \in 1..max_size : index_idents[j1] = index_idents[j2] => j1 = j2
         /\ \A k1, k2 \in StructIndexes : impls[k1].ident = impls[k2].ident => k1 = k2
         /\ \A i \in 0..(max_size - 1) :
              \A s \in (i + 1)..max_size :
                \E k \in ImplsAt(s, i) : impls[k].index_marker = index_idents[i + 1]

C7_Witness ==
    /\ pc = "done"
    /\ max_size = 3
    /\ \E k1, k2 \in ImplIndexes :
         /\ Len(impls[k1].type_params) = 2
         /\ Len(impls[k2].type_params) = 3
         /\ impls[k1].index_marker = FormatIdent("TupleIndex", 1)
         /\ impls[k2].index_marker = FormatIdent("TupleIndex", 1)

----------------------------------------------------------------------------
\* Properties of the emitted operations (SpecOps).

CallImpl == call.impl[1]

\* The position the implementation of the current call is for.
CallPos == CallImpl.INDEX + 1

OthersKept(t, old, p) ==
    /\ Len(t) = Len(old)
    /\ \A j \in 1..Len(old) : j # p => t[j] = old[j]

\* C2: pop at position i of v returns the value that was at i and the
\* remainder: length s-1, the other values of v in their order, of the
\* element types PopOutput declares; putting the popped value back in at i
\* gives v again; for s = 1 the remainder is empty.
C2_Pop ==
    call.name = "pop" =>
        LET v == call.before
            p == CallPos
            e == call.ret[1]
            r == call.ret[2]
        IN  /\ e = v[p]
            /\ Len(r) = Len(v) - 1
            /\ \A k \in 1..Len(r) : r[k] = v[IF k < p THEN k ELSE k + 1]
            /\ SubSeq(r, 1, p - 1) \o <<e>> \o SubSeq(r, p, Len(r)) = v
            /\ BindAll(CallImpl, TypeOf(v), CallImpl.PopOutput) = TypeOf(r)
            /\ Len(v) = 1 => r = <<>>

C2_Witness ==
    /\ call.name = "pop"
    /\ Len(call.before) = 3
    /\ CallPos = 2
    /\ call.before[1] # call.before[3]
    /\ call.ret[2] = <<call.before[1], call.before[3]>>

\* C3: split_at at position i of v returns left = positions 0..i and right =
\* positions i+1..s-1, of lengths i+1 and s-i-1, which concatenate to v; the
\* declared SplitLeft and SplitRight are the types of left and right.
C3_SplitAt ==
    call.name = "split_at" =>
        LET v == call.before
            p == CallPos
            left == call.ret[1]
            right == call.ret[2]
        IN  /\ Len(left) = p
            /\ Len(right) = Len(v) - p
            /\ left = SubSeq(v, 1, p)
            /\ right = SubSeq(v, p + 1, Len(v))
            /\ left \o right = v
            /\ p = 1 => Len(left) = 1 /\ Len(right) = Len(v) - 1
            /\ p = Len(v) => right = <<>>
            /\ BindAll(CallImpl, TypeOf(v), CallImpl.SplitLeft) = TypeOf(left)
            /\ BindAll(CallImpl, TypeOf(v), CallImpl.SplitRight) = TypeOf(right)

C3_Witness ==
    /\ call.name = "split_at"
    /\ Len(call.before) = 3
    /\ CallPos = 2
    /\ Len(call.ret[1]) = 2
    /\ Len(call.ret[2]) = 1

\* C4: after x is assigned through get_mut at position i, get at position i
\* yields x and every other position holds what it held before; get does not
\* change the tuple.
C4_WriteThenRead ==
    /\ call.name = "get_mut" =>
         /\ self[CallPos] = call.arg[1]
         /\ GetBody(CallImpl, self) = call.arg[1]
         /\ OthersKept(self, call.before, CallPos)
    /\ call.name = "get" =>
         /\ self = call.before
         /\ call.ret[1] = call.before[CallPos]
         /\ (call.after_write # <<>> /\ call.after_write[1] = CallImpl.INDEX) =>
               call.ret[1] = call.after_write[2]

C4_Witness ==
    /\ call.name = "get"
    /\ Len(self) = 3
    /\ CallPos = 2
    /\ call.after_write = <<1, [ty |-> self[2].ty, val |-> 1]>>

\* C5: when map at position i with f has completed, position i holds f of the
\* value that was there and every other position is unchanged; with the
\* identity the tuple is unchanged.
C5_Map ==
    (call.name = "map" /\ call.phase = "idle") =>
        /\ self[CallPos] = ApplyFn(call.f, call.before[CallPos])
        /\ OthersKept(self, call.before, CallPos)
        /\ call.f = "id" => self = call.before

C5_Witness ==
    /\ call.name = "map"
    /\ call.phase = "idle"
    /\ call.f = "succ"
    /\ Len(self) = 3
    /\ CallPos = 3
    /\ self[3].val = 1
    /\ call.before[3].val = 0

\* The positions of a tuple whose element type is t.
PositionsOfType(v, t) == {k \in 1..Len(v) : v[k].ty = t}

\* C6: a lookup by element type alone matches as many implementations as the
\* tuple has positions of that type (so more than one when two positions
\* share it, exactly one when a single position has it), each match being the
\* implementation for one of those positions; a lookup that also names a
\* marker matches at most one.
C6_Lookup ==
    call.name = "lookup" =>
        LET v == call.before
            t == call.arg[1]
            m == call.arg[2]
            found == call.ret[1]
        IN  /\ m = <<>> =>
                 /\ Cardinality(found) = Cardinality(PositionsOfType(v, t))
                 /\ {im.INDEX + 1 : im \in found} = PositionsOfType(v, t)
                 /\ Cardinality(PositionsOfType(v, t)) >= 2 => Cardinality(found) > 1
                 /\ Cardinality(PositionsOfType(v, t)) = 1 => Cardinality(found) = 1
            /\ m # <<>> => Cardinality(found) <= 1

C6_Witness ==
    /\ call.name = "lookup"
    /\ call.arg[2] = <<>>
    /\ Len(call.before) = 3
    /\ Cardinality(call.ret[1]) = 2

\* C10: map moves the value out, calls f, writes back.  Between the move-out
\* and the write-back position i holds the Default of its type and the other
\* positions their original values; f is called once, with the value that was
\* at i; if f never returns, position i keeps the Default and the rest is
\* unchanged.
C10_MapSteps ==
    call.name = "map" =>
        /\ call.taken = <<call.before[CallPos]>>
        /\ OthersKept(self, call.before, CallPos)
        /\ call.phase \in {"taken", "applied", "unwound"} =>
             self[CallPos] = Default(call.before[CallPos].ty)
        /\ call.phase = "taken" => call.f_args = <<>>
        /\ call.phase \in {"applied", "idle", "unwound"} =>
             call.f_args = <<call.before[CallPos]>>
        /\ call.phase = "unwound" <=> (~Returns(call.f) /\ call.f_args # <<>>)

C10_Witness ==
    /\ call.name = "map"
    /\ call.phase = "unwound"
    /\ Len(self) = 3
    /\ CallPos = 2
    /\ call.before[2].val = 1
    /\ self[2].val = 0

----------------------------------------------------------------------------
\* Properties of the pass with its steps in any order (SpecOrder).

\* The declaration for (s, i), written out from s and i alone.
ExpectedImpl(s, i) ==
    [kind               |-> "impl",
     type_params        |-> [k \in 1..s |-> <<"T", k - 1>>],
     index_marker       |-> <<"TupleIndex", i>>,
     target_type        |-> <<"T", i>>,
     PopOutput          |-> [k \in 1..(s - 1) |-> <<"T", IF k <= i THEN k - 1 ELSE k>>],
     SplitLeft          |-> [k \in 1..(i + 1) |-> <<"T", k - 1>>],
     SplitRight         |-> [k \in 1..(s - i - 1) |-> <<"T", i + k>>],
     INDEX              |-> i,
     index_lit          |-> i,
     remaining_indices  |-> [k \in 1..(s - 1) |-> IF k <= i THEN k - 1 ELSE k],
     split_left_indices |-> [k \in 1..(i + 1) |-> k - 1],
     split_right_indices |-> [k \in 1..(s - i - 1) |-> i + k]]

ExpectedDecls(n) ==
    {[kind |-> "struct", ident |-> <<"TupleIndex", j>>] : j \in 0..(n - 1)}
      \cup UNION {{ExpectedImpl(s, i) : i \in 0..(s - 1)} : s \in 1..n}

AllIterations(n) == UNION {{<<s, i>> : i \in 0..(s - 1)} : s \in 1..n}

Reordered == pc \in {"reorder_pre", "reorder_post"}

\* The declarations emitted so far, as a set.
Decls == IF Reordered THEN emitted ELSE {impls[k] : k \in 1..Len(impls)}

PassComplete ==
    \/ pc = "done"
    \/ pc = "reorder_post" /\ visited = AllIterations(max_size)

----------------------------------------------------------------------------
\* Properties of impl_typed_tuple! (SpecHand).

HandDone == h_next > Len(HandInvocations) /\ h_pending = <<>>

HandImplsAt(s, i) ==
    {k \in 1..Len(h_impls) : Len(h_impls[k].generics) = s /\ h_impls[k].INDEX = i}

\* Exactly one implementation for each position of each arity lo..HandMaxLen,
\* for the i-th element type and field i, with get, get_mut and map; none for
\* another arity or index; each arity's expansion ends after s steps.
HandFamilyFrom(lo) ==
    /\ \A s \in lo..HandMaxLen :
         /\ \A i \in 0..(s - 1) :
              \E k \in 1..Len(h_impls) :
                /\ HandImplsAt(s, i) = {k}
                /\ h_impls[k].target = h_impls[k].generics[i + 1]
                /\ h_impls[k].field = i
                /\ h_impls[k].methods = {"get", "get_mut", "map"}
         /\ \A n \in 0..(HandMaxLen + 1) : <<s, n>> \in h_stops <=> n = s
    /\ \A k \in 1..Len(h_impls) :
         /\ Len(h_impls[k].generics) \in lo..HandMaxLen
         /\ h_impls[k].INDEX \in 0..(Len(h_impls[k].generics) - 1)

\* C8: once the impl_typed_tuple! invocations are expanded, every tuple arity
\* s with 1 <= s <= 12 has exactly one implementation for each position
\* i < s (const index i, the i-th element type, field i, with get, get_mut
\* and map), there is none for an arity above 12 or an index i >= s, and the
\* expansion for each arity stopped after exactly s steps.
C8_HandFamily == HandDone => HandFamilyFrom(1)

\* The same family from arity 2 on, which is what the invocations cover.
HandFamilyFromTwo == HandDone => HandFamilyFrom(2)

====
